---- MODULE Spec2Model ----
(***************************************************************************)
(* The chat session of the Aspen frontend: the WebSocket supervisor        *)
(* (initWebSocket, onopen, onmessage, onclose, onerror), sendMessage and   *)
(* toggleCollapse, in its two variants:                                    *)
(*   "discrete"     src/frontend/src/App.vue (one transcript entry per     *)
(*                  thought, tool call, reply, file bundle)                *)
(*   "incremental"  src/unnamed/part_001 (one accumulating assistant turn) *)
(* A behaviour is a run of one variant; mode is fixed by Init.  To compare *)
(* the variants, SpecTwin runs App.vue and keeps in twin the transcript    *)
(* that part_001 holds after the same events.                              *)
(*                                                                         *)
(* Text (thought, content, user input) is a sequence of one-character      *)
(* strings, so that concatenation and trim() are computed.  A JavaScript   *)
(* object is a record; a property that is undefined is a field that the    *)
(* record does not have.  scrollToBottom only moves the scroll position    *)
(* of the chat box and is left out.  The Date.now() part of a message id   *)
(* is left out: an id is its prefix and its messageIdCounter value.        *)
(***************************************************************************)
EXTENDS Integers, Sequences, FiniteSets, TLC

VARIABLES
    mode,              \* which variant runs: "discrete" | "incremental"
    phase,             \* "setup" (before onMounted) | "mounted" | "unmounted"
    messages,          \* messages.value: the transcript
    userInput,         \* userInput.value
    loading,           \* loading.value
    wsConnected,       \* wsConnected.value
    readyState,        \* readyState of the WebSocket held by `socket` ("null": socket = null)
    timers,            \* pending setTimeout(initWebSocket, ...) calls: remaining delay of each, in ms
    outbound,          \* frames the socket has transmitted to the server
    messageIdCounter,  \* messageIdCounter (App.vue only)
    twin               \* messages.value of part_001 run side by side with App.vue
                       \* (SpecTwin); [on |-> FALSE] when only one variant runs

vars == <<mode, phase, messages, userInput, loading, wsConnected, readyState,
          timers, outbound, messageIdCounter, twin>>

(***************************************************************************)
(* Bounds of the model.                                                    *)
(***************************************************************************)
MaxMessages == 3     \* transcript entries
MaxSize == 4         \* transcript entries plus the characters and tool calls accumulated in turns
TickMs == 1500       \* granularity of the clock

(***************************************************************************)
(* Program constants.                                                      *)
(***************************************************************************)
ReconnectDelay == 3000

Modes == {"discrete", "incremental"}

(***************************************************************************)
(* Text helpers.                                                           *)
(***************************************************************************)
IsSpace(c) == c = " "

RECURSIVE TrimStart(_)
TrimStart(s) ==
    IF s # <<>> /\ IsSpace(Head(s)) THEN TrimStart(Tail(s)) ELSE s

RECURSIVE TrimEnd(_)
TrimEnd(s) ==
    IF s # <<>> /\ IsSpace(s[Len(s)]) THEN TrimEnd(SubSeq(s, 1, Len(s) - 1)) ELSE s

\* String.prototype.trim
Trim(s) == TrimEnd(TrimStart(s))

\* truthiness of a string: non-empty
Truthy(s) == s # <<>>

Has(obj, f) == f \in DOMAIN obj

\* typeof data[f] === 'string'.  A frame names the fields whose JSON value is not
\* a string in "types"; the field itself then holds String(value), the text that
\* string concatenation makes of the value.
IsString(data, f) == ~(Has(data, "types") /\ Has(data.types, f))

(***************************************************************************)
(* Inbound messages.  event.data is either text that JSON.parse rejects    *)
(* (InvalidJson) or a frame object.                                        *)
(***************************************************************************)
InvalidJson == [invalid |-> TRUE]

CallIds == {"t1", "t2"}

ToolCall(c) == [id |-> c, function_name |-> "mixer", args |-> "{}"]

\* a result with is_error and file_paths absent
PlainResult(c) == [call_id |-> c, result |-> "r1"]

\* a result carrying every field
FullResult(c) == [call_id |-> c, result |-> "r2", is_error |-> TRUE, file_paths |-> <<"f1">>]

FrameTexts == {<<>>, <<" ">>, <<"a">>}

DoneFrames == {[type |-> "done"], [type |-> "done", thought |-> <<"a">>]}

FileFrames ==
    {[type |-> "file_download", file_paths |-> <<"f1">>],
     [type |-> "file_download", file_paths |-> <<"f1">>, content |-> <<"a">>]}

ThoughtFrames == {[thought |-> t] : t \in FrameTexts}

ContentFrames == {[content |-> t] : t \in FrameTexts}

ToolCallingFrames ==
    {[status |-> "tool_calling", tool_calls |-> cs] :
        cs \in {<<>>, <<ToolCall("t1")>>, <<ToolCall("t2")>>, <<ToolCall("t1"), ToolCall("t2")>>}}

ToolExecutedFrames ==
    {[status |-> "tool_executed", tool_results |-> rs] :
        rs \in {<<PlainResult("t1")>>, <<FullResult("t1")>>, <<PlainResult("t2")>>}}

MixedFrames ==
    {[thought |-> <<"a">>, status |-> "tool_calling", tool_calls |-> <<ToolCall("t1")>>,
      content |-> <<"a">>],
     [thought |-> <<"a">>, status |-> "tool_executed", tool_results |-> <<PlainResult("t1")>>]}

\* frames whose thought is the JSON number 5
NonStringFrames ==
    {[thought |-> <<"5">>, types |-> [thought |-> "number"]],
     [thought |-> <<"5">>, content |-> <<"a">>, types |-> [thought |-> "number"]]}

MalformedFrames ==
    {InvalidJson, [status |-> "tool_executed"], [status |-> "tool_calling"],
     [status |-> "tool_calling", content |-> <<"a">>]} \cup NonStringFrames

Frames ==
    DoneFrames \cup FileFrames \cup ThoughtFrames \cup ContentFrames \cup ToolCallingFrames
        \cup ToolExecutedFrames \cup MixedFrames \cup MalformedFrames

UserTexts == {<<"h">>}

(***************************************************************************)
(* Objects.                                                                *)
(***************************************************************************)
\* obj.f = v
Put(obj, f, v) == [x \in DOMAIN obj \cup {f} |-> IF x = f THEN v ELSE obj[x]]

\* obj.f = undefined
Drop(obj, f) == [x \in DOMAIN obj \ {f} |-> obj[x]]

Min(S) == CHOOSE x \in S : \A y \in S : x <= y

(***************************************************************************)
(* A handler run: the transcript, loading and the id counter as the        *)
(* statements executed so far have left them, and where control is:        *)
(* "run" (executing), "return" (returned early), "throw" (an exception     *)
(* is propagating).  Each statement of a handler is a step on this record. *)
(***************************************************************************)
Start(msgs, ld, ctr) == [messages |-> msgs, loading |-> ld, counter |-> ctr, flow |-> "run"]

\* faulty variant of Push: messages.value.unshift(msg)
PushFront(st, msg) == [st EXCEPT !.messages = <<msg>> \o @, !.counter = @ + 1]

\* faulty variant of Push: the message is built with messageIdCounter, not incremented
PushKeepsCounter(st, msg) == [st EXCEPT !.messages = Append(@, msg)]

\* messages.value.push(msg) of a message built with messageIdCounter++
Push(st, msg) == [st EXCEPT !.messages = Append(@, msg), !.counter = @ + 1]

Throw(st) == [st EXCEPT !.flow = "throw"]

Return(st) == [st EXCEPT !.flow = "return"]

(***************************************************************************)
(* App.vue: message constructors.                                          *)
(***************************************************************************)
MsgId(prefix, n) == [prefix |-> prefix, n |-> n]

createUserMessage(content, n) ==
    [id |-> MsgId("msg", n), type |-> "user", content |-> content, collapsed |-> FALSE]

createThoughtMessage(thought, n) ==
    [id |-> MsgId("msg", n), type |-> "thought", content |-> thought, collapsed |-> FALSE]

\* faulty variant of createToolRequestMessage: the entry starts collapsed
createCollapsedToolRequest(toolCall, n) ==
    [id |-> MsgId("msg", n), type |-> "tool_request", call_id |-> toolCall.id,
     function_name |-> toolCall.function_name, args |-> toolCall.args,
     result |-> "", file_paths |-> <<>>, is_error |-> FALSE, collapsed |-> TRUE]

createToolRequestMessage(toolCall, n) ==
    [id |-> MsgId("msg", n), type |-> "tool_request", call_id |-> toolCall.id,
     function_name |-> toolCall.function_name, args |-> toolCall.args,
     result |-> "", file_paths |-> <<>>, is_error |-> FALSE, collapsed |-> FALSE]

createAssistantMessage(content, n) ==
    [id |-> MsgId("msg", n), type |-> "assistant", content |-> content, collapsed |-> FALSE]

createFileMessage(filePaths, n) ==
    [id |-> MsgId("file", n), type |-> "file_download", file_paths |-> filePaths]

(***************************************************************************)
(* App.vue: socket.onmessage, statement by statement.                      *)
(***************************************************************************)
\* const data = JSON.parse(event.data)
ParseStep(st, raw) ==
    IF Has(raw, "invalid") THEN Throw(st) ELSE st

\* faulty variant of DoneStep: returns without clearing loading
DoneStepKeepsLoading(st, data) ==
    IF st.flow # "run" THEN st
    ELSE IF Has(data, "type") /\ data.type = "done" THEN Return(st) ELSE st

\* if (data.type === 'done') { loading.value = false; return; }
DoneStep(st, data) ==
    IF st.flow # "run" THEN st
    ELSE IF Has(data, "type") /\ data.type = "done"
         THEN Return([st EXCEPT !.loading = FALSE])
         ELSE st

\* if (data.type === 'file_download' && data.file_paths) { push(fileMsg); return; }
FileDownloadStep(st, data) ==
    IF st.flow # "run" THEN st
    ELSE IF Has(data, "type") /\ data.type = "file_download" /\ Has(data, "file_paths")
         THEN Return(Push(st, createFileMessage(data.file_paths, st.counter)))
         ELSE st

\* if (data.thought && data.thought.trim()) push(createThoughtMessage(data.thought)):
\* a truthy value that is not a string has no trim method, the call throws a TypeError
ThoughtStep(st, data) ==
    IF st.flow # "run" THEN st
    ELSE IF Has(data, "thought") /\ Truthy(data.thought)
         THEN IF ~IsString(data, "thought") THEN Throw(st)
              ELSE IF Truthy(Trim(data.thought))
                   THEN Push(st, createThoughtMessage(data.thought, st.counter))
                   ELSE st
         ELSE st

\* data.tool_calls.forEach(toolCall => push(createToolRequestMessage(toolCall)))
RECURSIVE PushToolRequests(_, _)
PushToolRequests(st, calls) ==
    IF calls = <<>> THEN st
    ELSE PushToolRequests(Push(st, createToolRequestMessage(Head(calls), st.counter)),
                          Tail(calls))

\* if (data.status === 'tool_calling' && data.tool_calls && data.tool_calls.length > 0)
ToolCallingStep(st, data) ==
    IF st.flow # "run" THEN st
    ELSE IF Has(data, "status") /\ data.status = "tool_calling"
            /\ Has(data, "tool_calls") /\ Len(data.tool_calls) > 0
         THEN PushToolRequests(st, data.tool_calls)
         ELSE st

\* messages.value.find(m => m.type === 'tool_request' && m.call_id === callId):
\* the index of the first match, 0 when there is none
FindToolMsg(msgs, callId) ==
    LET hits == {i \in 1..Len(msgs) :
                    msgs[i].type = "tool_request" /\ msgs[i].call_id = callId}
    IN  IF hits = {} THEN 0 ELSE Min(hits)

\* toolMsg.result = ...; toolMsg.is_error = ... || false; toolMsg.file_paths = ...
ResolveToolMsg(toolMsg, toolResult) ==
    LET withResult ==
            IF Has(toolResult, "result")
            THEN [toolMsg EXCEPT !.result = toolResult.result]
            ELSE Drop(toolMsg, "result")
        withError ==
            [withResult EXCEPT !.is_error =
                IF Has(toolResult, "is_error") THEN toolResult.is_error ELSE FALSE]
    IN  IF Has(toolResult, "file_paths")
        THEN [withError EXCEPT !.file_paths = toolResult.file_paths]
        ELSE withError

\* the body of data.tool_results.forEach in App.vue
ApplyToolResult(msgs, toolResult) ==
    LET i == FindToolMsg(msgs, toolResult.call_id)
    IN  IF i = 0 THEN msgs
        ELSE [msgs EXCEPT ![i] = ResolveToolMsg(@, toolResult)]

RECURSIVE ApplyToolResults(_, _)
ApplyToolResults(msgs, results) ==
    IF results = <<>> THEN msgs
    ELSE ApplyToolResults(ApplyToolResult(msgs, Head(results)), Tail(results))

\* if (data.status === 'tool_executed' && data.tool_results && data.tool_results.length > 0)
ToolExecutedStep(st, data) ==
    IF st.flow # "run" THEN st
    ELSE IF Has(data, "status") /\ data.status = "tool_executed"
            /\ Has(data, "tool_results") /\ Len(data.tool_results) > 0
         THEN [st EXCEPT !.messages = ApplyToolResults(@, data.tool_results)]
         ELSE st

\* if (data.content && data.content.trim()) push(createAssistantMessage(data.content))
ContentStep(st, data) ==
    IF st.flow # "run" THEN st
    ELSE IF Has(data, "content") /\ Truthy(data.content)
         THEN IF ~IsString(data, "content") THEN Throw(st)
              ELSE IF Truthy(Trim(data.content))
                   THEN Push(st, createAssistantMessage(data.content, st.counter))
                   ELSE st
         ELSE st

\* the try block of socket.onmessage in App.vue
DiscreteOnMessage(st, raw) ==
    ContentStep(
      ToolExecutedStep(
        ToolCallingStep(
          ThoughtStep(
            FileDownloadStep(
              DoneStep(ParseStep(st, raw), raw), raw), raw), raw), raw), raw)

(***************************************************************************)
(* part_001: socket.onmessage, statement by statement.  The handler has    *)
(* no try block: an exception leaves it with the statements before it      *)
(* already applied.                                                        *)
(***************************************************************************)
NewAssistantTurn == [role |-> "assistant", content |-> <<>>, thought |-> <<>>, tool_calls |-> <<>>]

\* faulty variant of OpenTurnStep: a new turn for every frame
OpenTurnAlways(st) ==
    IF st.flow # "run" THEN st
    ELSE [st EXCEPT !.messages = Append(@, NewAssistantTurn)]

\* let lastMsg = messages[length - 1]; if (!lastMsg || lastMsg.role === 'user') push a new turn
OpenTurnStep(st) ==
    IF st.flow # "run" THEN st
    ELSE IF st.messages = <<>> \/ st.messages[Len(st.messages)].role = "user"
         THEN [st EXCEPT !.messages = Append(@, NewAssistantTurn)]
         ELSE st

\* faulty variant of AppendThoughtStep: lastMsg.thought = data.thought
ReplaceThoughtStep(st, data) ==
    IF st.flow # "run" THEN st
    ELSE IF Has(data, "thought") /\ Truthy(data.thought)
         THEN [st EXCEPT !.messages[Len(st.messages)].thought = data.thought]
         ELSE st

\* if (data.thought) lastMsg.thought += data.thought (a number is concatenated
\* as its decimal text)
AppendThoughtStep(st, data) ==
    IF st.flow # "run" THEN st
    ELSE IF Has(data, "thought") /\ Truthy(data.thought)
         THEN [st EXCEPT !.messages[Len(st.messages)].thought = @ \o data.thought]
         ELSE st

\* faulty variant of AppendContentStep: the content goes to the first entry
AppendContentToFirst(st, data) ==
    IF st.flow # "run" THEN st
    ELSE IF Has(data, "content") /\ Truthy(data.content)
         THEN [st EXCEPT !.messages[1].content = @ \o data.content]
         ELSE st

\* if (data.content) lastMsg.content += data.content
AppendContentStep(st, data) ==
    IF st.flow # "run" THEN st
    ELSE IF Has(data, "content") /\ Truthy(data.content)
         THEN [st EXCEPT !.messages[Len(st.messages)].content = @ \o data.content]
         ELSE st

\* if (data.status === 'tool_calling') lastMsg.tool_calls.push(...data.tool_calls):
\* spreading undefined throws a TypeError
PushToolCallsStep(st, data) ==
    IF st.flow # "run" THEN st
    ELSE IF Has(data, "status") /\ data.status = "tool_calling"
         THEN IF Has(data, "tool_calls")
              THEN [st EXCEPT !.messages[Len(st.messages)].tool_calls = @ \o data.tool_calls]
              ELSE Throw(st)
         ELSE st

\* lastMsg.tool_calls.find(t => t.id === callId): index of the first match, 0 when none
FindTool(toolCalls, callId) ==
    LET hits == {i \in 1..Len(toolCalls) : toolCalls[i].id = callId}
    IN  IF hits = {} THEN 0 ELSE Min(hits)

\* if (tool) tool.result = res.result
SetToolResult(toolCalls, res) ==
    LET i == FindTool(toolCalls, res.call_id)
    IN  IF i = 0 THEN toolCalls
        ELSE [toolCalls EXCEPT ![i] =
                IF Has(res, "result") THEN Put(@, "result", res.result) ELSE Drop(@, "result")]

RECURSIVE SetToolResults(_, _)
SetToolResults(toolCalls, results) ==
    IF results = <<>> THEN toolCalls
    ELSE SetToolResults(SetToolResult(toolCalls, Head(results)), Tail(results))

\* if (data.status === 'tool_executed') data.tool_results.forEach(...):
\* forEach of undefined throws a TypeError
SetToolResultsStep(st, data) ==
    IF st.flow # "run" THEN st
    ELSE IF Has(data, "status") /\ data.status = "tool_executed"
         THEN IF Has(data, "tool_results")
              THEN [st EXCEPT !.messages[Len(st.messages)].tool_calls =
                                    SetToolResults(@, data.tool_results)]
              ELSE Throw(st)
         ELSE st

\* socket.onmessage in part_001
IncrementalOnMessage(st, raw) ==
    SetToolResultsStep(
      PushToolCallsStep(
        AppendContentStep(
          AppendThoughtStep(
            OpenTurnStep(
              DoneStep(ParseStep(st, raw), raw)), raw), raw), raw), raw)

(***************************************************************************)
(* The model's bounds on a transcript.                                     *)
(***************************************************************************)
\* what an accumulating turn of part_001 holds
Items(m) ==
    IF Has(m, "tool_calls") THEN Len(m.thought) + Len(m.content) + Len(m.tool_calls) ELSE 0

RECURSIVE TotalItems(_)
TotalItems(msgs) ==
    IF msgs = <<>> THEN 0 ELSE Items(Head(msgs)) + TotalItems(Tail(msgs))

InBounds(msgs) ==
    /\ Len(msgs) <= MaxMessages
    /\ Len(msgs) + TotalItems(msgs) <= MaxSize

(***************************************************************************)
(* Initial state: the script setup has run, the component is not mounted.  *)
(***************************************************************************)
NoTwin == [on |-> FALSE]

Init ==
    /\ mode \in Modes
    /\ phase = "setup"
    /\ messages = <<>>
    /\ userInput = <<>>
    /\ loading = FALSE
    /\ wsConnected = FALSE
    /\ readyState = "null"
    /\ timers = <<>>
    /\ outbound = <<>>
    /\ messageIdCounter = 0
    /\ twin = NoTwin

(***************************************************************************)
(* The connection supervisor.                                              *)
(***************************************************************************)
\* initWebSocket: socket = new WebSocket(url), handlers attached
initWebSocket == readyState' = "connecting"

\* onMounted(initWebSocket)
Mount ==
    /\ phase = "setup"
    /\ phase' = "mounted"
    /\ initWebSocket
    /\ UNCHANGED <<mode, twin, messages, userInput, loading, wsConnected, timers, outbound,
                   messageIdCounter>>

\* onUnmounted: removes the resize listeners of the document
Unmount ==
    /\ phase = "mounted"
    /\ phase' = "unmounted"
    /\ UNCHANGED <<mode, twin, messages, userInput, loading, wsConnected, readyState, timers,
                   outbound, messageIdCounter>>

\* socket.onopen
OnOpen ==
    /\ readyState = "connecting"
    /\ readyState' = "open"
    /\ wsConnected' = TRUE
    /\ UNCHANGED <<mode, twin, phase, messages, userInput, loading, timers, outbound,
                   messageIdCounter>>

\* faulty variant of ScheduleReconnect: no reconnect is scheduled
ScheduleNothing(ts) == ts

\* faulty variant of ScheduleReconnect: the reconnect is scheduled twice
ScheduleReconnectTwice(ts) == ts \o <<ReconnectDelay, ReconnectDelay>>

\* setTimeout(initWebSocket, 3000)
ScheduleReconnect(ts) == Append(ts, ReconnectDelay)

\* faulty variant of OnCloseHandler: wsConnected is left as it was
OnCloseKeepsFlag ==
    /\ UNCHANGED wsConnected
    /\ timers' = ScheduleReconnect(timers)

\* socket.onclose: wsConnected.value = false; setTimeout(initWebSocket, 3000)
OnCloseHandler ==
    /\ wsConnected' = FALSE
    /\ timers' = ScheduleReconnect(timers)

\* socket.onerror: wsConnected after the handler (part_001 sets no onerror)
OnErrorHandler(connected) == IF mode = "discrete" THEN FALSE ELSE connected

\* the server starts the closing handshake: readyState CLOSING, no event yet
ClosingHandshake ==
    /\ readyState = "open"
    /\ readyState' = "closing"
    /\ UNCHANGED <<mode, twin, phase, messages, userInput, loading, wsConnected, timers, outbound,
                   messageIdCounter>>

\* faulty variant of OnClose: the close also clears the input
OnCloseClearsInput ==
    /\ readyState \in {"open", "closing"}
    /\ readyState' = "closed"
    /\ OnCloseHandler
    /\ userInput' = <<>>
    /\ UNCHANGED <<mode, twin, phase, messages, loading, outbound, messageIdCounter>>

\* the connection closes cleanly: a close event
OnClose ==
    /\ readyState \in {"open", "closing"}
    /\ readyState' = "closed"
    /\ OnCloseHandler
    /\ UNCHANGED <<mode, twin, phase, messages, userInput, loading, outbound, messageIdCounter>>

\* the connection fails: an error event, then a close event, in one task.
\* App.vue's onerror sets wsConnected = false; part_001 sets no onerror.
OnErrorThenClose ==
    /\ readyState \in {"connecting", "open", "closing"}
    /\ readyState' = "closed"
    /\ OnErrorHandler(wsConnected) \in BOOLEAN
    /\ OnCloseHandler
    /\ UNCHANGED <<mode, twin, phase, messages, userInput, loading, outbound, messageIdCounter>>

\* time passes, up to the moment the earliest timer is due
Tick ==
    /\ timers # <<>>
    /\ \A i \in 1..Len(timers) : timers[i] > 0
    /\ timers' = [i \in 1..Len(timers) |->
                    IF timers[i] > TickMs THEN timers[i] - TickMs ELSE 0]
    /\ UNCHANGED <<mode, twin, phase, messages, userInput, loading, wsConnected, readyState,
                   outbound, messageIdCounter>>

\* faulty variant of TimerFire: the timer stays pending after its callback has run
TimerFireKeepsTimer ==
    /\ \E i \in 1..Len(timers) : timers[i] = 0
    /\ initWebSocket
    /\ UNCHANGED <<mode, twin, phase, messages, userInput, loading, wsConnected, outbound,
                   messageIdCounter, timers>>

\* a timer that is due runs its callback, initWebSocket
TimerFire ==
    /\ \E i \in 1..Len(timers) :
          /\ timers[i] = 0
          /\ timers' = SubSeq(timers, 1, i - 1) \o SubSeq(timers, i + 1, Len(timers))
    /\ initWebSocket
    /\ UNCHANGED <<mode, twin, phase, messages, userInput, loading, wsConnected, outbound,
                   messageIdCounter>>

(***************************************************************************)
(* Inbound messages.                                                       *)
(***************************************************************************)
OnMessageResult(raw) ==
    IF mode = "discrete"
    THEN DiscreteOnMessage(Start(messages, loading, messageIdCounter), raw)
    ELSE IncrementalOnMessage(Start(messages, loading, messageIdCounter), raw)

\* whether an exception leaves socket.onmessage: App.vue catches and logs it,
\* part_001 has no try block
Escapes(raw) == mode = "incremental" /\ OnMessageResult(raw).flow = "throw"

\* socket.onmessage of part_001 on the transcript kept in twin
TwinOnMessage(raw) ==
    IF twin.on
    THEN [twin EXCEPT !.messages = IncrementalOnMessage(Start(@, loading, 0), raw).messages]
    ELSE twin

\* socket.onmessage
OnMessage(raw) ==
    /\ readyState = "open"
    /\ LET st == OnMessageResult(raw)
       IN  /\ InBounds(st.messages)
           /\ messages' = st.messages
           /\ loading' = st.loading
           /\ messageIdCounter' = st.counter
    /\ twin' = TwinOnMessage(raw)
    /\ twin.on => InBounds(twin'.messages)
    /\ UNCHANGED <<mode, phase, userInput, wsConnected, readyState, timers, outbound>>

(***************************************************************************)
(* The user.                                                               *)
(***************************************************************************)
\* v-model="userInput", applyPrompt, clearSelection, ...
EditInput(text) ==
    /\ phase = "mounted"
    /\ userInput # text
    /\ userInput' = text
    /\ UNCHANGED <<mode, twin, phase, messages, loading, wsConnected, readyState, timers,
                   outbound, messageIdCounter>>

\* the user turn sendMessage pushes
UserTurn(content) ==
    IF mode = "discrete"
    THEN createUserMessage(content, messageIdCounter)
    ELSE [role |-> "user", content |-> content]

\* socket.send(data): throws InvalidStateError while CONNECTING, transmits while OPEN,
\* discards the data while CLOSING or CLOSED
SendThrows == readyState = "connecting"

\* faulty variant of Transmit: the frame goes out twice
TransmitTwice(out, frame) == IF readyState = "open" THEN out \o <<frame, frame>> ELSE out

Transmit(out, frame) == IF readyState = "open" THEN Append(out, frame) ELSE out

\* messages.value.push({ role: 'user', content }) of part_001 on the transcript in twin
TwinSend(content) ==
    IF twin.on
    THEN [twin EXCEPT !.messages = Append(@, [role |-> "user", content |-> content])]
    ELSE twin

sendMessage ==
    /\ phase = "mounted"
    /\ IF userInput = <<>> \/ loading
       THEN UNCHANGED <<messages, messageIdCounter, outbound, userInput, loading, twin>>
       ELSE /\ InBounds(Append(messages, UserTurn(userInput)))
            /\ messages' = Append(messages, UserTurn(userInput))
            /\ twin' = TwinSend(userInput)
            /\ twin.on => InBounds(twin'.messages)
            /\ messageIdCounter' = IF mode = "discrete" THEN messageIdCounter + 1
                                   ELSE messageIdCounter
            /\ IF SendThrows
               THEN UNCHANGED <<outbound, userInput, loading>>
               ELSE /\ outbound' = Transmit(outbound, [message |-> userInput])
                    /\ userInput' = <<>>
                    /\ loading' = TRUE
    /\ UNCHANGED <<mode, phase, wsConnected, readyState, timers>>

\* faulty variant of ToggleCollapsed: msg.collapsed = true
CollapseOnly(msgs, msgId) ==
    LET hits == {i \in 1..Len(msgs) : msgs[i].id = msgId}
    IN  IF hits = {} THEN msgs
        ELSE [msgs EXCEPT ![Min(hits)] = Put(@, "collapsed", TRUE)]

\* messages.value.find(m => m.id === msgId); if (msg) msg.collapsed = !msg.collapsed
ToggleCollapsed(msgs, msgId) ==
    LET hits == {i \in 1..Len(msgs) : msgs[i].id = msgId}
    IN  IF hits = {} THEN msgs
        ELSE [msgs EXCEPT ![Min(hits)] =
                Put(@, "collapsed", IF Has(@, "collapsed") THEN ~@.collapsed ELSE TRUE)]

\* the ids the template passes: @click="toggleCollapse(msg.id)" on thought,
\* tool_request and assistant entries
ClickableIds ==
    IF mode # "discrete" THEN {}
    ELSE {messages[i].id : i \in {j \in 1..Len(messages) :
                            messages[j].type \in {"thought", "tool_request", "assistant"}}}

UnknownId == MsgId("msg", -1)

toggleCollapse(msgId) ==
    /\ phase = "mounted"
    /\ mode = "discrete"
    /\ messages' = ToggleCollapsed(messages, msgId)
    /\ UNCHANGED <<mode, twin, phase, userInput, loading, wsConnected, readyState, timers,
                   outbound, messageIdCounter>>

Next ==
    \/ Mount
    \/ Unmount
    \/ OnOpen
    \/ ClosingHandshake
    \/ OnClose
    \/ OnErrorThenClose
    \/ Tick
    \/ TimerFire
    \/ \E raw \in Frames : OnMessage(raw)
    \/ \E text \in UserTexts \cup {<<>>} : EditInput(text)
    \/ sendMessage
    \/ \E msgId \in ClickableIds \cup {UnknownId} : toggleCollapse(msgId)

Spec == Init /\ [][Next]_vars

(***************************************************************************)
(* The two variants side by side: App.vue runs (mode "discrete") and twin  *)
(* holds the transcript of part_001 for the same mounts, connection        *)
(* events, frames and sendMessage calls.  loading, the input and the       *)
(* socket evolve alike in both variants (the 'done' branch, the guard of   *)
(* sendMessage and the supervisor are the same code).                      *)
(***************************************************************************)
InitTwin ==
    /\ mode = "discrete"
    /\ phase = "setup"
    /\ messages = <<>>
    /\ userInput = <<>>
    /\ loading = FALSE
    /\ wsConnected = FALSE
    /\ readyState = "null"
    /\ timers = <<>>
    /\ outbound = <<>>
    /\ messageIdCounter = 0
    /\ twin = [on |-> TRUE, messages |-> <<>>]

SpecTwin == InitTwin /\ [][Next]_vars

(***************************************************************************)
(* Observations used by the properties.                                    *)
(***************************************************************************)
\* the tool-call records of one transcript entry, as <<call id, stored result>>
\* ("" : no result stored)
RecordsOf(m) ==
    IF Has(m, "tool_calls")
    THEN [k \in 1..Len(m.tool_calls) |->
            [call_id |-> m.tool_calls[k].id,
             result |-> IF Has(m.tool_calls[k], "result") THEN m.tool_calls[k].result ELSE ""]]
    ELSE IF Has(m, "call_id")
         THEN <<[call_id |-> m.call_id, result |-> IF Has(m, "result") THEN m.result ELSE ""]>>
         ELSE <<>>

\* every tool-call record of the transcript, in transcript order
RECURSIVE ToolRecords(_)
ToolRecords(msgs) ==
    IF msgs = <<>> THEN <<>> ELSE RecordsOf(Head(msgs)) \o ToolRecords(Tail(msgs))

RequestedIds(msgs) == {ToolRecords(msgs)[k].call_id : k \in 1..Len(ToolRecords(msgs))}

IsUserTurn(m) ==
    \/ Has(m, "role") /\ m.role = "user"
    \/ Has(m, "type") /\ m.type = "user"

\* thought, tool request, assistant reply (App.vue) or accumulated turn (part_001)
IsAgentEntry(m) ==
    \/ Has(m, "role") /\ m.role = "assistant"
    \/ Has(m, "type") /\ m.type \in {"thought", "tool_request", "assistant"}

\* an entry without its display state
Conversational(m) == IF Has(m, "collapsed") THEN Drop(m, "collapsed") ELSE m

\* a frame that parses, is not a 'done' frame and carries only tool results
IsResultsOnly(raw) ==
    /\ DOMAIN raw = {"status", "tool_results"}
    /\ raw.status = "tool_executed"
    /\ raw.tool_results # <<>>

ResultIds(raw) == {raw.tool_results[k].call_id : k \in 1..Len(raw.tool_results)}

(***************************************************************************)
(* C1 (idempotent resolution), as claimed: once a tool-call record holds a *)
(* result, no step changes that record's result.                           *)
(***************************************************************************)
C1_ResultNeverOverwritten ==
    [][\A k \in 1..Len(ToolRecords(messages)) :
          ToolRecords(messages)[k].result # "" =>
              /\ k <= Len(ToolRecords(messages'))
              /\ ToolRecords(messages')[k].result = ToolRecords(messages)[k].result]_vars

(***************************************************************************)
(* C2 (no orphan promotion), as claimed: ingesting a frame that carries    *)
(* only tool results, none of whose call ids was requested, leaves the     *)
(* transcript as it was and lets no exception escape.                      *)
(***************************************************************************)
C2_OrphanLeavesTranscript ==
    [][\A raw \in Frames :
          (/\ IsResultsOnly(raw)
           /\ ResultIds(raw) \cap RequestedIds(messages) = {}
           /\ OnMessage(raw))
          => (messages' = messages /\ ~Escapes(raw))]_vars

(***************************************************************************)
(* C3 (closed agent turns are immutable), as claimed: an agent entry that  *)
(* is followed by a user turn keeps every conversational field.            *)
(***************************************************************************)
ClosedAgentEntries(msgs) ==
    {i \in 1..Len(msgs) :
        IsAgentEntry(msgs[i]) /\ \E j \in (i + 1)..Len(msgs) : IsUserTurn(msgs[j])}

C3_ClosedTurnsImmutable ==
    [][\A i \in ClosedAgentEntries(messages) :
          /\ i <= Len(messages')
          /\ Conversational(messages'[i]) = Conversational(messages[i])]_vars

(***************************************************************************)
(* C4 (opening of agent turns, part_001).  An agent-origin frame is a      *)
(* frame object without a type that carries a thought, a content, tool     *)
(* calls or tool results.  Ingested while the transcript is empty or ends  *)
(* with a user turn, it appends exactly one assistant turn holding the     *)
(* frame's effect; ingested otherwise, it appends nothing and applies the  *)
(* effect to the last turn.  Every earlier entry is left as it was.        *)
(***************************************************************************)
IsAgentOrigin(raw) ==
    /\ ~Has(raw, "invalid")
    /\ ~Has(raw, "type")
    /\ \/ Has(raw, "thought")
       \/ Has(raw, "content")
       \/ Has(raw, "status") /\ raw.status = "tool_calling" /\ Has(raw, "tool_calls")
       \/ Has(raw, "status") /\ raw.status = "tool_executed" /\ Has(raw, "tool_results")

FrameText(raw, f) == IF Has(raw, f) THEN raw[f] ELSE <<>>

FrameCalls(raw) ==
    IF Has(raw, "status") /\ raw.status = "tool_calling" /\ Has(raw, "tool_calls")
    THEN raw.tool_calls ELSE <<>>

FrameResults(raw) ==
    IF Has(raw, "status") /\ raw.status = "tool_executed" /\ Has(raw, "tool_results")
    THEN raw.tool_results ELSE <<>>

CallIdsOf(calls) == [k \in 1..Len(calls) |-> calls[k].id]

NoOpenTurn(msgs) == msgs = <<>> \/ IsUserTurn(msgs[Len(msgs)])

\* the last result the frame carries for call id c
LastResultFor(raw, c) ==
    LET rs == FrameResults(raw)
        k == CHOOSE n \in 1..Len(rs) :
                /\ rs[n].call_id = c
                /\ \A n2 \in (n + 1)..Len(rs) : rs[n2].call_id # c
    IN  rs[k].result

TurnHoldsEffect(before, after, raw) ==
    /\ after.role = "assistant"
    /\ after.thought = before.thought \o FrameText(raw, "thought")
    /\ after.content = before.content \o FrameText(raw, "content")
    /\ CallIdsOf(after.tool_calls) = CallIdsOf(before.tool_calls) \o CallIdsOf(FrameCalls(raw))
    /\ \A k \in 1..Len(FrameResults(raw)) :
          LET c == FrameResults(raw)[k].call_id
              n == FindTool(after.tool_calls, c)
          IN  n # 0 => after.tool_calls[n].result = LastResultFor(raw, c)

MutableFields(m) ==
    {"collapsed"}
        \cup (IF Has(m, "call_id") THEN {"result", "is_error", "file_paths"} ELSE {})
        \cup (IF Has(m, "tool_calls") THEN {"thought", "content", "tool_calls"} ELSE {})

\* an entry as it was created: its id, type or role, and the fields never updated
Identity(m) == [f \in DOMAIN m \ MutableFields(m) |-> m[f]]

InCreationOrder(msgs) ==
    \A i, j \in 1..Len(msgs) :
        (i < j /\ Has(msgs[i], "id") /\ Has(msgs[j], "id")) => msgs[i].id.n < msgs[j].id.n

C5_AppendOnly ==
    [][/\ Len(messages') >= Len(messages)
       /\ \A i \in 1..Len(messages) : Identity(messages'[i]) = Identity(messages[i])
       /\ InCreationOrder(messages')]_vars

\* a full transcript built by sendMessage and frames, with an entry mutated in place
C5_Witness ==
    /\ mode = "discrete"
    /\ Len(messages) = MaxMessages
    /\ \E i, j, k \in 1..Len(messages) :
          /\ IsUserTurn(messages[i])
          /\ Has(messages[j], "call_id") /\ messages[j].result # ""
          /\ Has(messages[k], "collapsed") /\ messages[k].collapsed

(***************************************************************************)
(* C6 (send while disconnected is a no-op), as claimed: sendMessage with   *)
(* non-empty input while wsConnected is false changes neither the          *)
(* transcript, nor what was transmitted, nor loading, nor the input.       *)
(***************************************************************************)
C6_SendWhileDisconnectedNoOp ==
    [][(sendMessage /\ userInput # <<>> /\ ~wsConnected)
          => UNCHANGED <<messages, outbound, loading, userInput>>]_vars

(***************************************************************************)
(* C7 (send while open): sendMessage with non-empty input t, the socket    *)
(* open and loading false transmits exactly the frame {message: t},        *)
(* appends exactly one user turn with content t, clears the input and      *)
(* sets loading; every earlier entry is left as it was.                    *)
(***************************************************************************)
C7_SendWhileOpen ==
    [][(sendMessage /\ userInput # <<>> /\ ~loading /\ wsConnected /\ readyState = "open")
          => /\ outbound' = Append(outbound, [message |-> userInput])
             /\ Len(messages') = Len(messages) + 1
             /\ SubSeq(messages', 1, Len(messages)) = messages
             /\ IsUserTurn(messages'[Len(messages')])
             /\ messages'[Len(messages')].content = userInput
             /\ userInput' = <<>>
             /\ loading' = TRUE]_vars

\* a message was sent on the open socket after an earlier exchange
C7_Witness ==
    /\ readyState = "open"
    /\ loading
    /\ Len(outbound) = 1
    /\ Len(messages) = 2
    /\ IsAgentEntry(messages[1])
    /\ IsUserTurn(messages[2])
    /\ messages[2].content = outbound[1].message

(***************************************************************************)
(* C8 (exactly one reconnection per close).  A step that closes the socket *)
(* sets wsConnected to false and adds exactly one timer, with the full     *)
(* delay; after mounting, initWebSocket runs only as the callback of a     *)
(* timer whose delay has run out, and consumes that timer; a timer's       *)
(* remaining delay only shrinks as time passes; there is never more than   *)
(* one pending timer, and only while the socket is closed.                 *)
(***************************************************************************)
ClosesSocket == readyState' = "closed" /\ readyState # "closed"

RunsInitWebSocket == readyState' = "connecting" /\ readyState # "connecting"

Without(ts, i) == SubSeq(ts, 1, i - 1) \o SubSeq(ts, i + 1, Len(ts))

C8_OneReconnectPerClose ==
    [][/\ ClosesSocket =>
            /\ wsConnected' = FALSE
            /\ timers' = Append(timers, ReconnectDelay)
       /\ (RunsInitWebSocket /\ phase # "setup") =>
            \E i \in 1..Len(timers) : timers[i] = 0 /\ timers' = Without(timers, i)
       /\ (timers' # timers /\ ~ClosesSocket /\ ~RunsInitWebSocket) =>
            /\ Len(timers') = Len(timers)
            /\ \A i \in 1..Len(timers) :
                  timers'[i] <= timers[i] /\ timers[i] - timers'[i] <= TickMs
            /\ UNCHANGED <<messages, loading, wsConnected, readyState, outbound>>
       /\ Len(timers') <= 1
       /\ timers' # <<>> => readyState' = "closed"]_vars

\* a message sent while the socket was closed (nothing transmitted, loading set),
\* then a reconnection, and a frame ingested from the new socket
C8_Witness ==
    /\ readyState = "open"
    /\ wsConnected
    /\ timers = <<>>
    /\ loading
    /\ outbound = <<>>
    /\ Len(messages) = 2
    /\ IsUserTurn(messages[1])
    /\ IsAgentEntry(messages[2])

(***************************************************************************)
(* C9 (reconnection never gives up).  Timers run (weak fairness of Tick    *)
(* and TimerFire); the transport accepts a connection attempt if attempts  *)
(* keep being made (strong fairness of OnOpen).  Then every close is       *)
(* followed by a new connection attempt, and by an open connection.        *)
(***************************************************************************)
SpecLive ==
    Init /\ [][Next]_vars /\ WF_vars(Tick) /\ WF_vars(TimerFire) /\ SF_vars(OnOpen)

C9_ReconnectsForever ==
    /\ (readyState = "closed") ~> (readyState = "connecting")
    /\ (readyState = "closed") ~> wsConnected

\* a close after earlier closes: a message was sent while the socket was closed, a
\* reconnection followed, a frame was ingested, and the new socket has closed too
C9_Witness ==
    /\ readyState = "closed"
    /\ timers = <<ReconnectDelay>>
    /\ loading
    /\ outbound = <<>>
    /\ Len(messages) = 2
    /\ IsUserTurn(messages[1])
    /\ IsAgentEntry(messages[2])

(***************************************************************************)
(* C10 (cancellation on teardown), as claimed: once the component is       *)
(* unmounted no reconnection timer is pending, initWebSocket does not run  *)
(* and no frame changes the transcript or loading.                         *)
(***************************************************************************)
C10_TeardownCancels ==
    [][/\ phase' = "unmounted" => timers' = <<>>
       /\ phase = "unmounted" =>
            /\ ~RunsInitWebSocket
            /\ UNCHANGED <<messages, loading>>]_vars

(***************************************************************************)
(* C11 (malformed frames are harmless), as claimed: ingesting a message    *)
(* that is not valid JSON, or a frame whose only content has an unexpected *)
(* shape, lets no exception leave the handler and changes neither the      *)
(* transcript, nor loading, nor the connection state.                      *)
(***************************************************************************)
\* the malformed messages that carry no well-formed field
Unusable == {raw \in MalformedFrames : ~Has(raw, "content")}

C11_MalformedHarmless ==
    [][\A raw \in Unusable :
          OnMessage(raw) =>
              /\ ~Escapes(raw)
              /\ UNCHANGED <<messages, loading, wsConnected, readyState>>]_vars

(***************************************************************************)
(* C12 (per-field fault isolation), as claimed: when applying one field of *)
(* a frame raises an exception, the transcript the handler leaves is the   *)
(* one the remaining, well-formed fields of the frame produce: in every    *)
(* state with an open socket, for every such frame.                        *)
(***************************************************************************)
\* the fields of a frame whose application raises an exception
FaultyFields(raw) ==
    (IF Has(raw, "thought") /\ ~IsString(raw, "thought") /\ mode = "discrete"
     THEN {"thought", "types"} ELSE {})
        \cup (IF /\ Has(raw, "status") /\ mode = "incremental"
                 /\ \/ raw.status = "tool_calling" /\ ~Has(raw, "tool_calls")
                    \/ raw.status = "tool_executed" /\ ~Has(raw, "tool_results")
              THEN {"status"} ELSE {})

WellFormedPart(raw) == [f \in DOMAIN raw \ FaultyFields(raw) |-> raw[f]]

C12_FieldFaultIsolated ==
    \A raw \in Frames :
        (readyState = "open" /\ FaultyFields(raw) # {}) =>
            /\ OnMessageResult(raw).flow = "throw"
            /\ OnMessageResult(raw).messages = OnMessageResult(WellFormedPart(raw)).messages

(***************************************************************************)
(* C13 (field independence), as claimed: a frame of type 'done' or         *)
(* 'file_download' that also carries a thought, tool calls, tool results   *)
(* or content has those applied: apart from the file listing, the handler  *)
(* leaves the transcript that the same frame without its type leaves.      *)
(***************************************************************************)
\* the frame without its type and file list
Rest(raw) == [f \in DOMAIN raw \ {"type", "file_paths"} |-> raw[f]]

CarriesMore(raw) == ~Has(raw, "invalid") /\ Has(raw, "type") /\ DOMAIN Rest(raw) # {}

IsFileEntry(m) == Has(m, "type") /\ m.type = "file_download"

\* the entries other than file listings, without their ids
Entries(msgs) ==
    LET Shown(m) == ~IsFileEntry(m)
        kept == SelectSeq(msgs, Shown)
    IN  [i \in 1..Len(kept) |-> IF Has(kept[i], "id") THEN Drop(kept[i], "id") ELSE kept[i]]

C13_FieldsIndependent ==
    \A raw \in Frames :
        (readyState = "open" /\ CarriesMore(raw)) =>
            Entries(OnMessageResult(raw).messages) = Entries(OnMessageResult(Rest(raw)).messages)

(***************************************************************************)
(* C14 (fixed application order within one frame, App.vue), as claimed:    *)
(* a well-formed frame appends, in this order, the file listing (type      *)
(* 'file_download'), the thought entry, one tool entry per call in array   *)
(* order, and the assistant reply; a frame of type 'done' clears loading   *)
(* after that.                                                             *)
(***************************************************************************)
ShownText(raw, f) == Has(raw, f) /\ IsString(raw, f) /\ Trim(raw[f]) # <<>>

\* the types of the entries the frame's fields append, in the claimed order
ExpectedTypes(raw) ==
    (IF Has(raw, "type") /\ raw.type = "file_download" /\ Has(raw, "file_paths")
     THEN <<"file_download">> ELSE <<>>)
        \o (IF ShownText(raw, "thought") THEN <<"thought">> ELSE <<>>)
        \o [k \in 1..Len(FrameCalls(raw)) |-> "tool_request"]
        \o (IF ShownText(raw, "content") THEN <<"assistant">> ELSE <<>>)

TypesOf(msgs) == [i \in 1..Len(msgs) |-> msgs[i].type]

\* the call ids of the tool entries, in transcript order
ToolEntryIds(msgs) ==
    LET IsTool(m) == m.type = "tool_request"
        tools == SelectSeq(msgs, IsTool)
    IN  [i \in 1..Len(tools) |-> tools[i].call_id]

C14_FixedOrder ==
    \A raw \in Frames :
        (/\ mode = "discrete" /\ readyState = "open"
         /\ ~Has(raw, "invalid") /\ OnMessageResult(raw).flow # "throw") =>
            LET st == OnMessageResult(raw)
                new == SubSeq(st.messages, Len(messages) + 1, Len(st.messages))
            IN  /\ Len(st.messages) >= Len(messages)
                /\ TypesOf(new) = ExpectedTypes(raw)
                /\ ToolEntryIds(new) = CallIdsOf(FrameCalls(raw))
                /\ (Has(raw, "type") /\ raw.type = "done") => ~st.loading

(***************************************************************************)
(* C15 (duplicate request ids are skipped), as claimed: in every reachable *)
(* state the transcript holds at most one tool-call record per call id.    *)
(***************************************************************************)
C15_OneRecordPerCallId ==
    \A i, j \in 1..Len(ToolRecords(messages)) :
        ToolRecords(messages)[i].call_id = ToolRecords(messages)[j].call_id => i = j

(***************************************************************************)
(* C16 (request then result resolves the call), as claimed: when call id c *)
(* was requested after the last user turn and is outstanding, ingesting a  *)
(* result for c leaves exactly one record for c, holding the result, the   *)
(* error flag (false when the result has none) and the file list of the    *)
(* result.                                                                 *)
(***************************************************************************)
\* the stored tool-call objects of one entry
StoredCalls(m) ==
    IF Has(m, "tool_calls") THEN m.tool_calls
    ELSE IF Has(m, "call_id") THEN <<m>> ELSE <<>>

RECURSIVE StoredRecords(_)
StoredRecords(msgs) ==
    IF msgs = <<>> THEN <<>> ELSE StoredCalls(Head(msgs)) \o StoredRecords(Tail(msgs))

RecordId(rec) == IF Has(rec, "call_id") THEN rec.call_id ELSE rec.id

IsOutstanding(rec) == ~Has(rec, "result") \/ rec.result = ""

\* the entries after the last user turn
AfterLastUserTurn(msgs) ==
    LET users == {i \in 1..Len(msgs) : IsUserTurn(msgs[i])}
        last == IF users = {} THEN 0 ELSE CHOOSE i \in users : \A j \in users : j <= i
    IN  SubSeq(msgs, last + 1, Len(msgs))

\* call ids requested after the last user turn and still outstanding
OutstandingIds(msgs) ==
    LET recs == StoredRecords(AfterLastUserTurn(msgs))
    IN  {RecordId(recs[k]) : k \in {n \in 1..Len(recs) : IsOutstanding(recs[n])}}

\* a record without an error flag counts as not in error
HoldsResult(rec, res) ==
    /\ Has(rec, "result") /\ rec.result = res.result
    /\ (IF Has(rec, "is_error") THEN rec.is_error ELSE FALSE)
            = (IF Has(res, "is_error") THEN res.is_error ELSE FALSE)
    /\ Has(res, "file_paths") => (Has(rec, "file_paths") /\ rec.file_paths = res.file_paths)

C16_RequestThenResult ==
    \A raw \in Frames :
        (readyState = "open" /\ ~Has(raw, "invalid") /\ ~Has(raw, "type")) =>
            \A k \in 1..Len(FrameResults(raw)) :
                LET res == FrameResults(raw)[k]
                    recs == StoredRecords(OnMessageResult(raw).messages)
                    hits == {n \in 1..Len(recs) : RecordId(recs[n]) = res.call_id}
                IN  res.call_id \in OutstandingIds(messages) =>
                        /\ Cardinality(hits) = 1
                        /\ \A n \in hits : HoldsResult(recs[n], res)

(***************************************************************************)
(* C17 (file bundle frames), as claimed: a frame of type 'file_download'   *)
(* with a file list appends exactly one file-listing entry carrying that   *)
(* list at the end of the transcript, whatever the last entry is, changes  *)
(* no existing entry, opens no agent turn and leaves loading as it was.    *)
(***************************************************************************)
IsFileFrame(raw) == DOMAIN raw = {"type", "file_paths"} /\ raw.type = "file_download"

C17_FileBundleAppended ==
    \A raw \in Frames :
        (readyState = "open" /\ IsFileFrame(raw)) =>
            LET st == OnMessageResult(raw)
                n == Len(messages)
            IN  /\ st.flow # "throw"
                /\ Len(st.messages) = n + 1
                /\ SubSeq(st.messages, 1, n) = messages
                /\ ~IsUserTurn(st.messages[n + 1]) /\ ~IsAgentEntry(st.messages[n + 1])
                /\ st.messages[n + 1].file_paths = raw.file_paths
                /\ st.loading = loading

(***************************************************************************)
(* C18 (done frames): the handler, given a frame whose only field is type  *)
(* 'done', returns with loading false and the transcript as it was; in     *)
(* part_001 an agent frame ingested next, with an assistant turn last in   *)
(* the transcript, appends nothing and is applied to that same turn.       *)
(***************************************************************************)
DoneFrame == [type |-> "done"]

C18_DoneClearsLoadingOnly ==
    readyState = "open" =>
        LET st == OnMessageResult(DoneFrame)
            n == Len(messages)
        IN  /\ st.flow = "return"
            /\ st.messages = messages
            /\ ~st.loading
            /\ (mode = "incremental" /\ ~NoOpenTurn(messages)) =>
                  \A raw \in Frames :
                      IsAgentOrigin(raw) =>
                          LET next == IncrementalOnMessage(
                                          Start(st.messages, st.loading, st.counter), raw)
                          IN  /\ Len(next.messages) = n
                              /\ SubSeq(next.messages, 1, n - 1) = SubSeq(messages, 1, n - 1)
                              /\ TurnHoldsEffect(messages[n], next.messages[n], raw)

\* a message was sent on the open socket, the agent answered into a turn, and a
\* done frame has cleared loading
C18_Witness ==
    /\ mode = "incremental"
    /\ readyState = "open"
    /\ outbound = <<[message |-> <<"h">>]>>
    /\ ~loading
    /\ Len(messages) = 2
    /\ IsUserTurn(messages[1])
    /\ messages[2].role = "assistant"
    /\ messages[2].content = <<"a">>

(***************************************************************************)
(* C19 (user turns are immutable): whatever message the handler is given   *)
(* (thought, tool calls, tool results, content, file_download, done,       *)
(* malformed), every user turn of the transcript is, after the handler,    *)
(* at its position and equal to what it was: same content, no thought and  *)
(* no tool calls attached.                                                 *)
(***************************************************************************)
C19_UserTurnsImmutable ==
    readyState = "open" =>
        \A raw \in Frames :
            \A i \in {j \in 1..Len(messages) : IsUserTurn(messages[j])} :
                /\ i <= Len(OnMessageResult(raw).messages)
                /\ OnMessageResult(raw).messages[i] = messages[i]

\* a user turn followed by a tool call that was requested and resolved
C19_Witness ==
    /\ readyState = "open"
    /\ Len(messages) >= 2
    /\ IsUserTurn(messages[1])
    /\ messages[1].content = <<"h">>
    /\ \E k \in 1..Len(ToolRecords(messages)) : ToolRecords(messages)[k].result # ""

(***************************************************************************)
(* C20 (transport failures stay out of the transcript): a step in which    *)
(* the socket closes, after an error event or not, sets wsConnected to     *)
(* false and schedules the reconnect, and changes neither the transcript   *)
(* (no entry appended, none modified), nor the input text, nor loading,    *)
(* nor what was transmitted.                                               *)
(***************************************************************************)
C20_TransportFailureSilent ==
    [][ClosesSocket =>
          /\ ~wsConnected'
          /\ UNCHANGED <<messages, userInput, loading, outbound, messageIdCounter, phase>>]_vars

\* the socket has just closed under a transcript and a typed, unsent input
C20_Witness ==
    /\ readyState = "closed"
    /\ timers = <<ReconnectDelay>>
    /\ ~wsConnected
    /\ userInput = <<"h">>
    /\ Len(messages) >= 2
    /\ \E i \in 1..Len(messages) : IsAgentEntry(messages[i])

(***************************************************************************)
(* C21 (toggleCollapse changes display state only, App.vue): a call of     *)
(* toggleCollapse(id) flips the collapsed flag of the entry with that id   *)
(* and leaves every other field of every entry, the length and order of    *)
(* the transcript, loading, the input and the connection state as they     *)
(* were; with an id that matches no entry nothing changes; a second call   *)
(* with the same id gives back the transcript before the first.            *)
(***************************************************************************)
C21_ToggleDisplayOnly ==
    [][\A msgId \in ClickableIds \cup {UnknownId} :
          toggleCollapse(msgId) =>
              /\ Len(messages') = Len(messages)
              /\ \A i \in 1..Len(messages) :
                    IF messages[i].id = msgId
                    THEN messages'[i] = [messages[i] EXCEPT !.collapsed = ~@]
                    ELSE messages'[i] = messages[i]
              /\ msgId = UnknownId => messages' = messages
              /\ ToggleCollapsed(messages', msgId) = messages
              /\ UNCHANGED <<loading, userInput, wsConnected, readyState, timers, outbound,
                             messageIdCounter>>]_vars

\* a thought entry that was collapsed, next to a resolved tool entry that was not
C21_Witness ==
    /\ mode = "discrete"
    /\ \E i, j \in 1..Len(messages) :
          /\ messages[i].type = "thought" /\ messages[i].collapsed
          /\ messages[j].type = "tool_request" /\ ~messages[j].collapsed
          /\ messages[j].result # ""

(***************************************************************************)
(* C22 (reconnection starts a fresh session), as claimed: frames are       *)
(* ingested only from an open socket, so an agent entry or a tool-call     *)
(* record present at the moment a socket opens stems from an earlier       *)
(* connection; the claim is that there is none: when a socket opens, the   *)
(* transcript holds no agent entry and no tool-call record.                *)
(***************************************************************************)
SocketOpens == readyState' = "open" /\ readyState # "open"

C22_FreshSessionOnReconnect ==
    [][SocketOpens =>
          /\ \A i \in 1..Len(messages') : ~IsAgentEntry(messages'[i])
          /\ ToolRecords(messages') = <<>>]_vars

(***************************************************************************)
(* C23 (incremental concatenation, part_001): from any state, ingesting a  *)
(* text fragment, then a tool-call or tool-result frame, then a second     *)
(* text fragment, with no user turn in between, leaves one last agent turn *)
(* whose content is the content before followed by the two content         *)
(* fragments in arrival order, and whose thought is the thought before     *)
(* followed by the two thought fragments.                                  *)
(***************************************************************************)
\* frames that carry text and no status
Fragments == {raw \in Frames : IsAgentOrigin(raw) /\ ~Has(raw, "status")}

\* frames that carry tool calls or tool results
ToolFrames == {raw \in Frames : IsAgentOrigin(raw) /\ Has(raw, "status")}

\* the handler run on the state an earlier run has left
Then(st, raw) == IncrementalOnMessage(Start(st.messages, st.loading, st.counter), raw)

C23_FragmentsConcatenate ==
    (mode = "incremental" /\ readyState = "open") =>
        \A f1, f2 \in Fragments : \A t \in ToolFrames :
            LET st == Then(Then(Then(Start(messages, loading, messageIdCounter), f1), t), f2)
                before == IF NoOpenTurn(messages) THEN NewAssistantTurn
                          ELSE messages[Len(messages)]
                n == IF NoOpenTurn(messages) THEN Len(messages) + 1 ELSE Len(messages)
            IN  /\ Len(st.messages) = n
                /\ st.messages[n].content =
                      before.content \o FrameText(f1, "content") \o FrameText(t, "content")
                          \o FrameText(f2, "content")
                /\ st.messages[n].thought =
                      before.thought \o FrameText(f1, "thought") \o FrameText(t, "thought")
                          \o FrameText(f2, "thought")

\* a turn that received two content fragments and a tool call
C23_Witness ==
    /\ mode = "incremental"
    /\ Len(messages) = 1
    /\ messages[1].role = "assistant"
    /\ messages[1].content = <<"a", "a">>
    /\ Len(messages[1].tool_calls) = 1

(***************************************************************************)
(* C24 (discrete sub-entries, App.vue): a frame without a type appends, at *)
(* the end of the transcript, one thought entry if its thought is not      *)
(* blank, one tool entry per requested call in array order (empty result,  *)
(* is_error false, empty file list), and one assistant entry if its        *)
(* content is not blank, each with collapsed false and an id of its own; a *)
(* blank thought or content appends nothing; toggling an entry changes the *)
(* collapsed flag of no other entry.                                       *)
(***************************************************************************)
ExpectedToolEntry(toolCall) ==
    [type |-> "tool_request", call_id |-> toolCall.id,
     function_name |-> toolCall.function_name, args |-> toolCall.args,
     result |-> "", file_paths |-> <<>>, is_error |-> FALSE, collapsed |-> FALSE]

\* the entries a frame is claimed to append, without their ids
ExpectedEntries(raw) ==
    (IF ShownText(raw, "thought")
     THEN <<[type |-> "thought", content |-> raw.thought, collapsed |-> FALSE]>> ELSE <<>>)
        \o [k \in 1..Len(FrameCalls(raw)) |-> ExpectedToolEntry(FrameCalls(raw)[k])]
        \o (IF ShownText(raw, "content")
            THEN <<[type |-> "assistant", content |-> raw.content, collapsed |-> FALSE]>>
            ELSE <<>>)

ResultPairs(msgs) == {ToolRecords(msgs)[k] : k \in 1..Len(ToolRecords(msgs))}

C25_ModesAgreeOnToolCalls ==
    twin.on => ResultPairs(messages) = ResultPairs(twin.messages)

(***************************************************************************)
(* C26 (sending is never blocked forever), as claimed.  Timers run, the    *)
(* transport accepts connection attempts (as in SpecLive), a closing       *)
(* handshake completes, and the server answers generously: if any frame    *)
(* was ever transmitted to it and done frames can keep being delivered, a  *)
(* done frame is delivered.  The claim is that loading, once true,         *)
(* eventually becomes false.                                               *)
(***************************************************************************)
SpecServed ==
    /\ Init /\ [][Next]_vars
    /\ WF_vars(Tick) /\ WF_vars(TimerFire) /\ SF_vars(OnOpen)
    /\ WF_vars(readyState = "closing" /\ OnClose)
    /\ SF_vars(outbound # <<>> /\ OnMessage([type |-> "done"]))

C26_LoadingEventuallyClears == loading ~> ~loading

(***************************************************************************)
(* C27 (at most one live connection): initWebSocket, which replaces the    *)
(* socket, runs only when there is no socket yet or the current one has    *)
(* closed, so no socket is replaced while it is connecting, open or        *)
(* closing; there is at most one pending reconnect timer, and none while   *)
(* the current socket is connecting, open or closing.                      *)
(***************************************************************************)
C27_OneLiveConnection ==
    [][/\ (Mount \/ TimerFire) => readyState \in {"null", "closed"}
       /\ Len(timers') <= 1
       /\ readyState' \in {"connecting", "open", "closing"} => timers' = <<>>]_vars

\* a second socket is being connected after the first one, which delivered frames,
\* has closed; no timer is left
C27_Witness ==
    /\ readyState = "connecting"
    /\ timers = <<>>
    /\ ~wsConnected
    /\ \E i \in 1..Len(messages) : IsAgentEntry(messages[i])

(***************************************************************************)
(* C28 (one request in flight), as claimed: sendMessage called while       *)
(* loading is true or the input is empty changes nothing; a step that      *)
(* appends a user turn sets loading, so that a done frame must be ingested *)
(* before the next one, and transmits one frame; the number of frames      *)
(* transmitted equals the number of user turns of the transcript.          *)
(***************************************************************************)
UserTurnCount(msgs) == Cardinality({i \in 1..Len(msgs) : IsUserTurn(msgs[i])})

C28_OneRequestInFlight ==
    [][/\ (sendMessage /\ (loading \/ userInput = <<>>)) => UNCHANGED vars
       /\ UserTurnCount(messages') > UserTurnCount(messages) =>
             /\ ~loading /\ loading'
             /\ Len(outbound') = Len(outbound) + 1
       /\ Len(outbound') = UserTurnCount(messages')]_vars

(***************************************************************************)
(* C29 (the connection indicator is never optimistic): wsConnected is true *)
(* only while the current socket has opened and has had no close or error  *)
(* event (it is open, or in its closing handshake); a step in which the    *)
(* socket closes leaves wsConnected false; wsConnected becomes true only   *)
(* in a step in which a socket opens.                                      *)
(***************************************************************************)
C29_IndicatorNeverOptimistic ==
    [][/\ wsConnected' => readyState' \in {"open", "closing"}
       /\ ClosesSocket => ~wsConnected'
       /\ (wsConnected' /\ ~wsConnected) => SocketOpens]_vars

\* an open socket that delivered frames is in its closing handshake: no close
\* event yet, the indicator still on
C29_Witness ==
    /\ readyState = "closing"
    /\ wsConnected
    /\ messages # <<>>
    /\ IsAgentEntry(messages[Len(messages)])

(***************************************************************************)
(* C30 (entry ids are unique, App.vue): in every reachable state the       *)
(* counter component of each entry's id is smaller than that of every      *)
(* entry after it and smaller than messageIdCounter, the next value to be  *)
(* handed out; so no two entries share an id, and toggleCollapse(id)       *)
(* changes at most one entry.                                              *)
(***************************************************************************)
C30_EntryIdsUnique ==
    mode = "discrete" =>
        /\ \A i, j \in 1..Len(messages) : i < j => messages[i].id.n < messages[j].id.n
        /\ \A i \in 1..Len(messages) : messages[i].id.n < messageIdCounter
        /\ \A i, j \in 1..Len(messages) : messages[i].id = messages[j].id => i = j
        /\ \A i \in 1..Len(messages) :
              Cardinality({j \in 1..Len(messages) :
                              ToggleCollapsed(messages, messages[i].id)[j] # messages[j]}) <= 1

\* a user turn, an agent entry and a file listing, with the first three ids
C30_Witness ==
    /\ mode = "discrete"
    /\ messageIdCounter = 3
    /\ Len(messages) = 3
    /\ \E i, j, k \in 1..3 :
          /\ messages[i].type = "user"
          /\ messages[j].type = "file_download"
          /\ messages[k].type \in {"thought", "tool_request", "assistant"}
====
